---------------------------- MODULE Spec2Model ----------------------------
(***************************************************************************)
(* A model of generator.py: the compiler from a Swagger specification to   *)
(* the class -> verb -> descriptor mapping, the URL entries and the        *)
(* resolved schemas.                                                       *)
(*                                                                         *)
(* Python strings are sequences of one-character strings, so that          *)
(* translate, split, join, replace and upper are computed as Python        *)
(* computes them.  Python dicts are sequences of (key, value) entries in   *)
(* insertion order; dict objects live in a heap and values point to them,  *)
(* so that aliasing between a working copy and the definitions table is    *)
(* visible.                                                                *)
(***************************************************************************)
EXTENDS Integers, Sequences, FiniteSets, TLC

VARIABLES
    pc,            \* position of the run being modelled
    in_path,       \* canonicalizer: the path argument
    in_verb,       \* canonicalizer: the verb argument
    out_class,     \* canonicalizer: result of path_to_class_name
    out_operation, \* canonicalizer: result of path_to_operation
    heap,          \* resolver: the dict objects, by object id
    definitions,   \* resolver: specification["definitions"], name -> object id
    loaded,        \* resolver: each definition's value just after loading
    detail_schema, \* resolver: object id of an inline detail["schema"]
    schema,        \* resolver: object id of the working copy, 0 when none
    resolved,      \* resolver: resolve_schema_references has returned on schema
    schemas,       \* resolver: generate_schemas' name -> resolved value
    inline_result, \* resolver: what the inline schema became in the payload
    specification, \* compiler: the parsed Swagger document
    classes,       \* compiler: self._classes, class name -> verb -> payload
    stored,        \* compiler: the payloads assigned at line 318, in order
    reports,       \* compiler: the messages printed for unsupported parameters
    entries,       \* compiler: generate_urls' URL pattern -> class name
    files,         \* generate: what the run has done to each output file
    error          \* generate: the exception the run caught and reported

namesVars == <<in_path, in_verb, out_class, out_operation>>
resolverVars == <<heap, definitions, loaded, detail_schema, schema, resolved,
                  schemas, inline_result>>
compilerVars == <<specification, classes, stored, reports, entries, files, error>>
vars == <<pc, namesVars, resolverVars, compilerVars>>

None == <<"None">>

---------------------------------------------------------------------------
(* Bounds *)

\* longest enumerated path segment, in characters (braces not counted)
MaxSegLen == 1
\* most segments of an enumerated path
MaxSegments == 2
\* most parameters of the operation whose parameters are enumerated
MaxParams == 2
\* most responses of the operation whose responses are enumerated
MaxResponses == 2
\* most paths of an enumerated specification
MaxPaths == 2
\* number of definitions in the definitions table
NumDefs == 2
\* deepest nesting of an input schema (0: a single node)
MaxDepth == 1

---------------------------------------------------------------------------
(* Python str operations on sequences of characters *)

RECURSIVE Concat(_)
\* "".join(parts)
Concat(parts) ==
    IF parts = <<>> THEN <<>> ELSE Head(parts) \o Concat(Tail(parts))

RECURSIVE Join(_, _)
\* sep.join(parts)
Join(sep, parts) ==
    IF parts = <<>> THEN <<>>
    ELSE IF Len(parts) = 1 THEN parts[1]
    ELSE parts[1] \o sep \o Join(sep, Tail(parts))

RECURSIVE Split(_, _)
\* s.split(c) for a one-character separator: k separators give k+1 parts,
\* empty parts included
Split(s, c) ==
    IF \A i \in 1..Len(s) : s[i] # c THEN <<s>>
    ELSE LET i == CHOOSE j \in 1..Len(s) :
                      s[j] = c /\ \A l \in 1..(j-1) : s[l] # c
         IN <<SubSeq(s, 1, i-1)>> \o Split(SubSeq(s, i+1, Len(s)), c)

IsPrefixAt(s, old, i) ==
    /\ i + Len(old) - 1 <= Len(s)
    /\ \A j \in 1..Len(old) : s[i + j - 1] = old[j]

RECURSIVE Replace(_, _, _)
\* s.replace(old, new): every non-overlapping occurrence, left to right.
\* With old = "" Python puts new before every character and at the end.
Replace(s, old, new) ==
    IF old = <<>>
    THEN IF s = <<>> THEN new
         ELSE new \o <<Head(s)>> \o Replace(Tail(s), old, new)
    ELSE IF s = <<>> THEN <<>>
    ELSE IF IsPrefixAt(s, old, 1)
         THEN new \o Replace(SubSeq(s, Len(old) + 1, Len(s)), old, new)
         ELSE <<Head(s)>> \o Replace(Tail(s), old, new)

\* c.upper() on the characters the model uses
Upper(c) ==
    CASE c = "a" -> "A" [] c = "b" -> "B" [] c = "c" -> "C" [] c = "d" -> "D"
      [] c = "e" -> "E" [] c = "f" -> "F" [] c = "h" -> "H" [] c = "i" -> "I"
      [] c = "m" -> "M" [] c = "o" -> "O" [] c = "p" -> "P" [] c = "r" -> "R"
      [] c = "s" -> "S" [] c = "t" -> "T" [] c = "z" -> "Z"
      [] OTHER -> c

\* c.lower() on the characters the model uses
Lower(c) ==
    CASE c = "A" -> "a" [] c = "B" -> "b" [] c = "C" -> "c" [] c = "D" -> "d"
      [] c = "E" -> "e" [] c = "F" -> "f" [] c = "H" -> "h" [] c = "I" -> "i"
      [] c = "M" -> "m" [] c = "O" -> "o" [] c = "P" -> "p" [] c = "R" -> "r"
      [] c = "S" -> "s" [] c = "T" -> "t" [] c = "Z" -> "z"
      [] OTHER -> c

RECURSIVE Translate(_)
\* path.translate(character_map): "{" and "}" are deleted, "_" becomes "/"
Translate(s) ==
    IF s = <<>> THEN <<>>
    ELSE LET c == Head(s)
         IN (IF c \in {"{", "}"} THEN <<>>
             ELSE IF c = "_" THEN <<"/">>
             ELSE <<c>>) \o Translate(Tail(s))

RECURSIVE MapSeq(_, _)
MapSeq(Op(_), s) ==
    IF s = <<>> THEN <<>> ELSE <<Op(Head(s))>> \o MapSeq(Op, Tail(s))

NonEmpty(p) == p # <<>>

ROOT_CLASS_NAME == <<"R", "o", "o", "t">>
ROOT_OPERATION == <<"r", "o", "o", "t">>

\* a slip: p.capitalize(), which also lowercases the rest
CapitalisedLoweringRest(p) == <<Upper(p[1])>> \o MapSeq(Lower, Tail(p))

\* p[0].upper() + p[1:]
UpperFirst(p) == <<Upper(p[1])>> \o Tail(p)

path_to_class_name(path) ==
    LET sanitised == Translate(path)
        class_name ==
            Concat(MapSeq(UpperFirst, SelectSeq(Split(sanitised, "/"), NonEmpty)))
    IN IF class_name # <<>> THEN class_name ELSE ROOT_CLASS_NAME

path_to_operation(path, verb) ==
    LET operation ==
            IF path = <<"/">> THEN ROOT_OPERATION
            ELSE Join(<<"_">>, Split(Translate(path), "/"))
    IN verb \o <<"_">> \o operation

\* fixup_parameters(url, backend)
fixup_parameters(url, backend) ==
    IF backend = "django"
    THEN Replace(Replace(url, <<"{">>, <<"(", "?", "P", "<">>),
                 <<"}">>, <<">", ".", "+", ")">>)
    ELSE url

---------------------------------------------------------------------------
(* Python dicts in a heap *)

\* A value is a string (a sequence of "/"-separated tokens kept whole, so
\* that "#/definitions/A" is <<"#", "/", "definitions", "/", "A">>) or a
\* pointer to a dict object.
StrVal(s) == [kind |-> "str", str |-> s, id |-> 0]
DictVal(i) == [kind |-> "dict", str |-> <<>>, id |-> i]

\* A dict is a sequence of entries [k, v] in insertion order.
HasKey(d, k) == \E i \in 1..Len(d) : d[i].k = k
IndexOf(d, k) == CHOOSE i \in 1..Len(d) : d[i].k = k
Get(d, k) == d[IndexOf(d, k)].v

\* d.pop(k): the dict without the key
Pop(d, k) ==
    LET Keep(e) == e.k # k IN SelectSeq(d, Keep)

\* d[k] = v: in place when the key exists, else appended
SetItem(d, k, v) ==
    IF HasKey(d, k) THEN [d EXCEPT ![IndexOf(d, k)].v = v]
    ELSE Append(d, [k |-> k, v |-> v])

RECURSIVE Update(_, _)
\* d.update(src): a shallow merge, src's values are shared, not copied
Update(d, src) ==
    IF src = <<>> THEN d
    ELSE Update(SetItem(d, Head(src).k, Head(src).v), Tail(src))

RECURSIVE deepcopy(_, _)
RECURSIVE CopyEntries(_, _, _, _)
\* copy.deepcopy(object id): fresh objects for the dict and every dict below
deepcopy(h, id) ==
    LET r == CopyEntries(h, h[id], 1, <<>>)
    IN [h |-> Append(r.h, r.d), id |-> Len(r.h) + 1]

CopyEntries(h, d, i, acc) ==
    IF i > Len(d) THEN [h |-> h, d |-> acc]
    ELSE IF d[i].v.kind = "dict"
         THEN LET c == deepcopy(h, d[i].v.id)
              IN CopyEntries(c.h, d, i + 1, Append(acc, [k |-> d[i].k, v |-> DictVal(c.id)]))
         ELSE CopyEntries(h, d, i + 1, Append(acc, d[i]))

RECURSIVE TreeOf(_, _)
\* the value of a dict object, as == compares dicts: by keys, whatever their order
TreeOf(h, id) ==
    LET d == h[id]
    IN [k \in {d[i].k : i \in 1..Len(d)} |->
            IF Get(d, k).kind = "dict"
            THEN [kind |-> "dict", str |-> <<>>, tree |-> TreeOf(h, Get(d, k).id)]
            ELSE [kind |-> "str", str |-> Get(d, k).str, tree |-> <<>>]]

\* schema_reference.split("/")[-2:]
LastTwo(parts) == SubSeq(parts, Len(parts) - 1, Len(parts))

\* self.parser.specification[section][name]
SpecificationLookup(defs, section, name) ==
    IF section = <<"definitions">> THEN defs[name[1]] ELSE 0

RECURSIVE resolve_schema_references(_, _, _)
RECURSIVE ResolveValues(_, _, _, _)
\* Generator.resolve_schema_references(definition): the heap it leaves
resolve_schema_references(defs, h, id) ==
    LET definition == h[id]
        popped ==
            IF HasKey(definition, "$ref")
            THEN LET schema_reference == Get(definition, "$ref").str
                     sn == LastTwo(Split(schema_reference, "/"))
                     referenced_definition ==
                         h[SpecificationLookup(defs, sn[1], sn[2])]
                 IN [h EXCEPT ![id] =
                        Update(Pop(definition, "$ref"), referenced_definition)]
            ELSE h
    IN ResolveValues(defs, popped, id, 1)

\* for value in definition.values(): recurse into the dicts
ResolveValues(defs, h, id, i) ==
    IF i > Len(h[id]) THEN h
    ELSE ResolveValues(defs,
                       IF h[id][i].v.kind = "dict"
                       THEN resolve_schema_references(defs, h, h[id][i].v.id)
                       ELSE h,
                       id, i + 1)

\* a schema held by a payload: absent, "schemas.<name>", or
\* json.loads of the serialised tree
NoResult == [kind |-> "none", name |-> "", tree |-> <<>>]
Lookup(name) == [kind |-> "lookup", name |-> name, tree |-> <<>>]
Inlined(tree) == [kind |-> "inline", name |-> "", tree |-> tree]

\* What _make_class_definitions puts in the payload for a body or response
\* schema: "schemas.<name>" for a reference, else the resolved deep copy,
\* serialised.  Also the heap it leaves and the working copy's object id.
schema_for_payload(defs, h, src) ==
    LET c == deepcopy(h, src)
        copy == c.h[c.id]
        schema_reference ==
            IF HasKey(copy, "$ref") THEN Get(copy, "$ref").str ELSE <<>>
    IN IF schema_reference # <<>>
       THEN LET parts == Split(schema_reference, "/")
                lookup == parts[Len(parts)][1]
            IN [h |-> c.h, id |-> c.id, resolved |-> FALSE, result |-> Lookup(lookup)]
       ELSE LET h2 == resolve_schema_references(defs, c.h, c.id)
            IN [h |-> h2, id |-> c.id, resolved |-> TRUE,
                result |-> Inlined(TreeOf(h2, c.id))]

---------------------------------------------------------------------------
(* The canonicalizer on its own: inputs drawn from bounded sets *)

SegChars == {"_", "a", "B"}

RECURSIVE SeqsUpTo(_, _)
SeqsUpTo(S, n) ==
    IF n = 0 THEN {<<>>}
    ELSE LET shorter == SeqsUpTo(S, n - 1)
         IN shorter \cup {Append(s, c) : s \in {t \in shorter : Len(t) = n - 1}, c \in S}

GET == <<"g", "e", "t">>
POST == <<"p", "o", "s", "t">>

\* "/some/path/{foo_id}/bar/{barId}/", the docstring's path
DocstringPath ==
    <<"/", "s", "o", "m", "e", "/", "p", "a", "t", "h", "/", "{", "f", "o", "o", "_",
      "i", "d", "}", "/", "b", "a", "r", "/", "{", "b", "a", "r", "I", "d", "}", "/">>

ExamplePaths ==
    { <<"/">>,
      <<"/", "f", "o", "o", "/", "{", "i", "d", "}">>,
      <<"/", "f", "o", "o", "/", "{", "b", "a", "r", "_", "i", "d", "}", "/", "b", "a", "z">>,
      DocstringPath }

\* a segment is a literal or a parameter in braces
Literals == SeqsUpTo(SegChars, MaxSegLen) \ {<<>>}
Segments == Literals \cup {<<"{">> \o l \o <<"}">> : l \in Literals}

\* path templates: "/" and "/seg/.../seg" with or without a trailing "/"
PathTemplates ==
    {<<"/">>} \cup
    { <<"/">> \o Join(<<"/">>, segs) \o trailing :
        segs \in SeqsUpTo(Segments, MaxSegments) \ {<<>>},
        trailing \in {<<>>, <<"/">>} }

PathInputs == PathTemplates \cup ExamplePaths

ResolverIdle ==
    /\ heap = <<>>
    /\ definitions = <<>>
    /\ loaded = <<>>
    /\ detail_schema = 0
    /\ schema = 0
    /\ resolved = FALSE
    /\ schemas = <<>>
    /\ inline_result = NoResult

\* the output files of a run, in the order generate produces them
Artifacts == <<"urls", "views", "schemas", "utils", "stubs">>
ArtifactNames == {Artifacts[i] : i \in 1..Len(Artifacts)}

\* no exception has been caught
NoError == [step |-> "", at |-> ""]

\* no output file has been opened
Untouched == [a \in ArtifactNames |-> "untouched"]

CompilerIdle ==
    /\ specification = <<>>
    /\ classes = <<>>
    /\ stored = <<>>
    /\ reports = <<>>
    /\ entries = <<>>
    /\ files = Untouched
    /\ error = NoError

InitNames ==
    /\ pc = "names"
    /\ ResolverIdle
    /\ CompilerIdle
    /\ in_path \in PathInputs
    /\ in_verb \in {GET, POST}
    /\ out_class = None
    /\ out_operation = None

CallPathToClassName ==
    /\ pc = "names"
    /\ out_class = None
    /\ out_class' = path_to_class_name(in_path)
    /\ UNCHANGED <<pc, in_path, in_verb, out_operation, resolverVars, compilerVars>>

CallPathToOperation ==
    /\ pc = "names"
    /\ out_operation = None
    /\ out_operation' = path_to_operation(in_path, in_verb)
    /\ UNCHANGED <<pc, in_path, in_verb, out_class, resolverVars, compilerVars>>

NextNames == CallPathToClassName \/ CallPathToOperation

SpecNames == InitNames /\ [][NextNames]_vars

---------------------------------------------------------------------------
(* Claims about the canonicalizer, checked under SpecNames *)

RECURSIVE ScanClassName(_, _)
\* One pass over the path: braces are dropped, "/" and "_" end a segment,
\* the first kept character of a segment is uppercased, the rest are kept.
ScanClassName(s, segStart) ==
    IF s = <<>> THEN <<>>
    ELSE LET c == Head(s)
         IN IF c \in {"{", "}"} THEN ScanClassName(Tail(s), segStart)
            ELSE IF c \in {"/", "_"} THEN ScanClassName(Tail(s), TRUE)
            ELSE <<IF segStart THEN Upper(c) ELSE c>> \o ScanClassName(Tail(s), FALSE)

SomePathFooIdBarBarId ==
    <<"S", "o", "m", "e", "P", "a", "t", "h", "F", "o", "o", "I", "d", "B", "a", "r",
      "B", "a", "r", "I", "d">>
FooBarIdBaz == <<"F", "o", "o", "B", "a", "r", "I", "d", "B", "a", "z">>
FooBarIdBazPath ==
    <<"/", "f", "o", "o", "/", "{", "b", "a", "r", "_", "i", "d", "}", "/", "b", "a", "z">>

\* C4: path_to_class_name(path) is the concatenation of the non-empty
\* segments of the path, braces removed, split on "/" and "_", each with
\* its first character uppercased and the rest unchanged; "Root" when
\* there is no such segment.  class_name("/") = "Root" and
\* class_name("/foo/{bar_id}/baz") = "FooBarIdBaz".
C4_ClassName ==
    out_class # None =>
        /\ out_class = (IF ScanClassName(in_path, TRUE) = <<>>
                        THEN <<"R", "o", "o", "t">>
                        ELSE ScanClassName(in_path, TRUE))
        /\ (in_path = <<"/">> => out_class = <<"R", "o", "o", "t">>)
        /\ (in_path = FooBarIdBazPath => out_class = FooBarIdBaz)
        /\ (in_path = DocstringPath => out_class = SomePathFooIdBarBarId)

C4_Witness ==
    /\ in_path = FooBarIdBazPath
    /\ out_class = FooBarIdBaz

RECURSIVE RemoveBraces(_)
RemoveBraces(s) ==
    IF s = <<>> THEN <<>>
    ELSE (IF Head(s) \in {"{", "}"} THEN <<>> ELSE <<Head(s)>>) \o RemoveBraces(Tail(s))

\* the operation name as the specification states it
ClaimedOperation(path, verb) ==
    verb \o <<"_">> \o
        (IF path = <<"/">> THEN <<"r", "o", "o", "t">>
         ELSE Join(<<"_">>, SelectSeq(Split(RemoveBraces(path), "/"), NonEmpty)))

\* C1: path_to_operation(path, verb) is verb + "_" + base, base being
\* "root" for the path "/" and otherwise the non-empty "/"-separated
\* segments of the path, braces removed, joined by "_" (so "/foo/{id}"
\* with "get" gives "get_foo_id").
C1_OperationName ==
    out_operation # None => out_operation = ClaimedOperation(in_path, in_verb)

---------------------------------------------------------------------------
(* The resolver and its callers on a loaded definitions table *)

DefNameSeq == <<"Widget", "Gadget", "Part", "Bolt">>
\* the definitions in the table's own order
DefOrder == SubSeq(DefNameSeq, 1, NumDefs)
DefNames == {DefOrder[i] : i \in 1..NumDefs}

\* An input schema is a chain of nodes, each the "items" of the one before;
\* a node may carry a "$ref" to a definition and a "type".
NodeShapes == [ref : DefNames \cup {"-"}, type : {"-", "string"}]
Chains == SeqsUpTo(NodeShapes, MaxDepth + 1) \ {<<>>}

RefString(name) == <<"#", "/", "definitions", "/", name>>

RECURSIVE AllocChain(_, _)
\* the dict objects of one parsed schema, children first
AllocChain(h, chain) ==
    LET node == Head(chain)
        child == IF Len(chain) > 1 THEN AllocChain(h, Tail(chain))
                 ELSE [h |-> h, id |-> 0]
        d == (IF node.ref # "-"
              THEN <<[k |-> "$ref", v |-> StrVal(RefString(node.ref))]>> ELSE <<>>)
             \o (IF node.type # "-"
                 THEN <<[k |-> "type", v |-> StrVal(<<node.type>>)]>> ELSE <<>>)
             \o (IF child.id # 0
                 THEN <<[k |-> "items", v |-> DictVal(child.id)]>> ELSE <<>>)
    IN [h |-> Append(child.h, d), id |-> Len(child.h) + 1]

RECURSIVE LoadTable(_, _, _, _)
\* the parsed definitions table: every definition's objects, in table order
LoadTable(table, i, h, ids) ==
    IF i > NumDefs THEN [h |-> h, ids |-> ids]
    ELSE LET a == AllocChain(h, table[DefOrder[i]])
         IN LoadTable(table, i + 1, a.h, Append(ids, a.id))

RefsOf(chain) == {chain[i].ref : i \in 1..Len(chain)} \ {"-"}

RECURSIVE ReachFrom(_, _, _)
ReachFrom(table, S, n) ==
    IF n = 0 THEN S
    ELSE ReachFrom(table, S \cup UNION {RefsOf(table[m]) : m \in S}, n - 1)

\* no definition refers to itself, directly or through others
Acyclic(table) ==
    \A n \in DefNames : n \notin ReachFrom(table, RefsOf(table[n]), NumDefs)

IndexOfName(n) == CHOOSE i \in 1..NumDefs : DefOrder[i] = n

InitResolve ==
    /\ pc = "make_class_definitions"
    /\ in_path = <<>> /\ in_verb = <<>> /\ out_class = None /\ out_operation = None
    /\ CompilerIdle
    /\ \E table \in {t \in [DefNames -> Chains] : Acyclic(t)}, inline \in Chains :
          LET t == LoadTable(table, 1, <<>>, <<>>)
              a == AllocChain(t.h, inline)
          IN /\ heap = a.h
             /\ definitions = [n \in DefNames |-> t.ids[IndexOfName(n)]]
             /\ loaded = [n \in DefNames |-> TreeOf(a.h, t.ids[IndexOfName(n)])]
             /\ detail_schema = a.id
    /\ schema = 0
    /\ resolved = FALSE
    /\ schemas = <<>>
    /\ inline_result = NoResult

\* _make_class_definitions on an inline body or response schema of the
\* loaded specification
ResolveInlineSchema ==
    /\ pc = "make_class_definitions"
    /\ LET r == schema_for_payload(definitions, heap, detail_schema)
       IN /\ heap' = r.h
          /\ schema' = r.id
          /\ resolved' = r.resolved
          /\ inline_result' = r.result
    /\ pc' = "generate_schemas"
    /\ UNCHANGED <<namesVars, compilerVars, definitions, loaded, detail_schema, schemas>>

\* one iteration of generate_schemas' loop over the definitions
GenerateSchemasStep ==
    /\ pc = "generate_schemas"
    /\ Len(schemas) < NumDefs
    /\ LET name == DefOrder[Len(schemas) + 1]
           c == deepcopy(heap, definitions[name])
           h2 == resolve_schema_references(definitions, c.h, c.id)
       IN /\ heap' = h2
          /\ schema' = c.id
          /\ resolved' = TRUE
          /\ schemas' = Append(schemas, [k |-> name, v |-> TreeOf(h2, c.id)])
    /\ UNCHANGED <<pc, namesVars, compilerVars, definitions, loaded, detail_schema,
                   inline_result>>

NextResolve == ResolveInlineSchema \/ GenerateSchemasStep

SpecResolve == InitResolve /\ [][NextResolve]_vars

---------------------------------------------------------------------------
(* Claims about the resolver, checked under SpecResolve *)

RECURSIVE NoRef(_, _)
\* no dict at or below the object has a "$ref" key
NoRef(h, id) ==
    /\ ~HasKey(h[id], "$ref")
    /\ \A i \in 1..Len(h[id]) :
          h[id][i].v.kind = "dict" => NoRef(h, h[id][i].v.id)

ResolverRuns == pc \in {"make_class_definitions", "generate_schemas"}

\* C2: over an acyclic table with no missing target, once
\* resolve_schema_references has returned, no node of the fragment has a
\* "$ref" key, at any depth.
C2_NoRefAfterResolve ==
    (ResolverRuns /\ resolved) => NoRef(heap, schema)

\* C3: the definitions table is never mutated: after any resolutions of a
\* run every definition still has the value it had just after loading.
C3_DefinitionsNeverMutated ==
    ResolverRuns =>
        \A n \in DefNames : TreeOf(heap, definitions[n]) = loaded[n]

\* C9: resolving an already resolved fragment leaves it unchanged.
C9_Idempotent ==
    (ResolverRuns /\ resolved) =>
        TreeOf(resolve_schema_references(definitions, heap, schema), schema)
            = TreeOf(heap, schema)


---------------------------------------------------------------------------
(* The compiler: load_specification, _make_class_definitions, generate_urls *)

DEFAULT == <<"d", "e", "f", "a", "u", "l", "t">>

DigitVal(c) ==
    CASE c = "0" -> 0 [] c = "1" -> 1 [] c = "2" -> 2 [] c = "3" -> 3
      [] c = "4" -> 4 [] c = "5" -> 5 [] c = "6" -> 6 [] c = "7" -> 7
      [] c = "8" -> 8 [] c = "9" -> 9

RECURSIVE ParseInt(_)
\* int(name) of a string of decimal digits
ParseInt(s) ==
    IF s = <<>> THEN 0
    ELSE 10 * ParseInt(SubSeq(s, 1, Len(s) - 1)) + DigitVal(s[Len(s)])

\* The definitions table the operations' schemas refer to: every
\* definition is {"type": "string"}.
PlainTable == [n \in DefNames |-> <<[ref |-> "-", type |-> "string"]>>]

\* schema_for_payload on a schema of the parsed document
PayloadSchema(chain) ==
    LET t == LoadTable(PlainTable, 1, <<>>, <<>>)
        a == AllocChain(t.h, chain)
        defs == [n \in DefNames |-> t.ids[IndexOfName(n)]]
    IN schema_for_payload(defs, a.h, a.id).result

NoBody == [present |-> FALSE, name |-> "", schema |-> NoResult]

\* self.parser.base_path
BasePath(spec) == spec.base_path

\* self.parser.paths: every path of the document, the base path in front
ParserPaths(spec) ==
    [i \in 1..Len(spec.paths) |->
        [path |-> BasePath(spec) \o spec.paths[i].template,
         verbs |-> spec.paths[i].verbs]]

\* self.PATH_VERB_OPERATION_MAP.get((path, verb), path_to_operation(path, verb))
OperationOf(path, io) ==
    IF io.operationId # None THEN io.operationId
    ELSE path_to_operation(path, io.verb)

\* the slip of treating an unknown location like formData
classify_parameter_as_form(acc, name, detail) ==
    LET location == detail.in
    IN IF location \in {"path", "query"}
       THEN IF detail.required
            THEN [acc EXCEPT !.payload.required_args = Append(@, detail)]
            ELSE [acc EXCEPT !.payload.optional_args = Append(@, detail)]
       ELSE IF location = "body"
       THEN [acc EXCEPT !.payload.body =
                [present |-> TRUE, name |-> name,
                 schema |-> PayloadSchema(detail.schema)]]
       ELSE [acc EXCEPT !.payload.form_data = Append(@, detail)]

\* the slip of filing every query parameter as optional
classify_parameter_query_optional(acc, name, detail) ==
    LET location == detail.in
    IN IF location = "path"
       THEN IF detail.required
            THEN [acc EXCEPT !.payload.required_args = Append(@, detail)]
            ELSE [acc EXCEPT !.payload.optional_args = Append(@, detail)]
       ELSE IF location = "query"
       THEN [acc EXCEPT !.payload.optional_args = Append(@, detail)]
       ELSE IF location = "body"
       THEN [acc EXCEPT !.payload.body =
                [present |-> TRUE, name |-> name,
                 schema |-> PayloadSchema(detail.schema)]]
       ELSE IF location = "formData"
       THEN [acc EXCEPT !.payload.form_data = Append(@, detail)]
       ELSE [acc EXCEPT !.reports =
                Append(@, [location |-> location,
                           operation |-> acc.payload.operation,
                           name |-> name])]

\* one iteration of "for name, detail in io["parameters"].items()"
classify_parameter(acc, name, detail) ==
    LET location == detail.in
    IN IF location = "path"
       THEN IF detail.required
            THEN [acc EXCEPT !.payload.required_args = Append(@, detail)]
            ELSE [acc EXCEPT !.payload.optional_args = Append(@, detail)]
       ELSE IF location = "query"
       THEN IF detail.required
            THEN [acc EXCEPT !.payload.required_args = Append(@, detail)]
            ELSE [acc EXCEPT !.payload.optional_args = Append(@, detail)]
       ELSE IF location = "body"
       THEN [acc EXCEPT !.payload.body =
                [present |-> TRUE, name |-> name,
                 schema |-> PayloadSchema(detail.schema)]]
       ELSE IF location = "formData"
       THEN [acc EXCEPT !.payload.form_data = Append(@, detail)]
       ELSE [acc EXCEPT !.reports =
                Append(@, [location |-> location,
                           operation |-> acc.payload.operation,
                           name |-> name])]

RECURSIVE AddArguments(_, _)
AddArguments(acc, parameters) ==
    IF parameters = <<>> THEN acc
    ELSE AddArguments(classify_parameter(acc, Head(parameters).name, Head(parameters)),
                      Tail(parameters))

\* the slip of taking any response that declares a schema
select_response_any_code(payload, name, detail) ==
    IF name = DEFAULT THEN payload
    ELSE IF detail.has_schema
         THEN [payload EXCEPT !.response_schema = PayloadSchema(detail.schema)]
         ELSE payload

\* one iteration of "for name, detail in io["responses"].items()"
select_response(payload, name, detail) ==
    IF name = DEFAULT THEN payload
    ELSE IF 200 <= ParseInt(name) /\ ParseInt(name) < 300 /\ detail.has_schema
         THEN [payload EXCEPT !.response_schema = PayloadSchema(detail.schema)]
         ELSE payload

RECURSIVE AddResponses(_, _)
AddResponses(payload, responses) ==
    IF responses = <<>> THEN payload
    ELSE AddResponses(select_response(payload, Head(responses).name, Head(responses)),
                      Tail(responses))

\* specification["paths"].get(relative_url, {}).get(verb, {})
SpecRef(spec, relative_url, verb) ==
    LET ps == {i \in 1..Len(spec.paths) : spec.paths[i].template = relative_url}
    IN IF ps = {} THEN {}
       ELSE LET vs == spec.paths[CHOOSE i \in ps : TRUE].verbs
            IN {vs[j] : j \in {l \in 1..Len(vs) : vs[l].verb = verb}}

\* lines 308-316: the global indicator, else the path and verb's own
Secure(spec, relative_url, verb) ==
    IF spec.security THEN TRUE
    ELSE \E specref \in SpecRef(spec, relative_url, verb) : specref.security

\* the payload of one verb of one path, and what was printed (lines 216-316)
BuildPayload(spec, path, relative_url, io) ==
    LET payload0 == [operation |-> OperationOf(path, io),
                     required_args |-> <<>>,
                     optional_args |-> <<>>,
                     form_data |-> <<>>,
                     body |-> NoBody,
                     response_schema |-> Lookup("__UNSPECIFIED__"),
                     secure |-> FALSE]
        args == AddArguments([payload |-> payload0, reports |-> <<>>], io.parameters)
        responded == AddResponses(args.payload, io.responses)
    IN [payload |-> [responded EXCEPT !.secure = Secure(spec, relative_url, io.verb)],
        reports |-> args.reports]

\* line 212: path.replace(self.parser.base_path, "")
RelativeUrl(spec, path) == Replace(path, BasePath(spec), <<>>)

\* line 326: path.replace(self.parser.base_path + "/", "")
UrlsRelativeUrl(spec, path) == Replace(path, BasePath(spec) \o <<"/">>, <<>>)

RECURSIVE VerbsLoop(_, _, _, _, _, _)
\* for verb, io in verbs.items(): ... self._classes[class_name][verb] = payload
VerbsLoop(spec, path, relative_url, class_name, verbs, st) ==
    IF verbs = <<>> THEN st
    ELSE LET io == Head(verbs)
             b == BuildPayload(spec, path, relative_url, io)
         IN VerbsLoop(spec, path, relative_url, class_name, Tail(verbs),
                [classes |-> SetItem(st.classes, class_name,
                                     SetItem(Get(st.classes, class_name), io.verb, b.payload)),
                 stored |-> Append(st.stored,
                                   [path |-> path, verb |-> io.verb,
                                    class_name |-> class_name, payload |-> b.payload]),
                 reports |-> st.reports \o b.reports])

\* the slip of keeping the verbs a class name already has
keep_class_entry(cls, class_name) ==
    IF HasKey(cls, class_name) THEN cls ELSE SetItem(cls, class_name, <<>>)

\* line 214: self._classes[class_name] = {}
reset_class_entry(cls, class_name) == SetItem(cls, class_name, <<>>)

RECURSIVE PathsLoop(_, _, _)
\* for path, verbs in self.parser.paths.items(): ...
PathsLoop(spec, paths, st) ==
    IF paths = <<>> THEN st
    ELSE LET path == Head(paths).path
             relative_url == RelativeUrl(spec, path)
             class_name == path_to_class_name(relative_url)
         IN PathsLoop(spec, Tail(paths),
                VerbsLoop(spec, path, relative_url, class_name, Head(paths).verbs,
                          [st EXCEPT !.classes = reset_class_entry(@, class_name)]))

\* Generator._make_class_definitions
make_class_definitions(spec) ==
    PathsLoop(spec, ParserPaths(spec),
              [classes |-> <<>>, stored |-> <<>>, reports |-> <<>>])

\* BACKEND_CHOICES
Backend == "django"

RECURSIVE UrlEntries(_, _, _)
\* the dict comprehension of generate_urls
UrlEntries(spec, paths, acc) ==
    IF paths = <<>> THEN acc
    ELSE LET relative_url == UrlsRelativeUrl(spec, Head(paths).path)
         IN UrlEntries(spec, Tail(paths),
                       SetItem(acc, fixup_parameters(relative_url, Backend),
                               path_to_class_name(relative_url)))

\* Generator.generate_urls: the entries handed to the template
generate_urls(spec) == UrlEntries(spec, ParserPaths(spec), <<>>)

---------------------------------------------------------------------------
(* The specifications the compiler is run on *)

Detail(name, in, required, sch) ==
    [name |-> name, in |-> in, required |-> required, schema |-> sch]

Response(name, has_schema, sch) ==
    [name |-> name, has_schema |-> has_schema, schema |-> sch]

RefTo(name) == <<[ref |-> name, type |-> "-"]>>
InlineString == <<[ref |-> "-", type |-> "string"]>>
\* {"items": {"$ref": "#/definitions/Widget"}}
InlineItems == <<[ref |-> "-", type |-> "-"], [ref |-> "Widget", type |-> "-"]>>

ParamNameSeq == <<"id", "q", "f", "h">>
Locations == {"path", "query", "formData", "header"}

\* a parameter but for its name
ParamChoices ==
    {Detail("", in, required, <<>>) : in \in Locations, required \in BOOLEAN}
    \cup {Detail("", "body", TRUE, sch) : sch \in {RefTo("Widget"), InlineItems}}

\* parameters in declaration order, the i-th named ParamNameSeq[i]
ParamSeqs ==
    { [i \in 1..Len(s) |-> [s[i] EXCEPT !.name = ParamNameSeq[i]]] :
        s \in SeqsUpTo(ParamChoices, MaxParams) }

ExampleParams ==
    <<Detail("id", "path", TRUE, <<>>), Detail("q", "query", FALSE, <<>>)>>

Codes == {DEFAULT, <<"2", "0", "0">>, <<"2", "0", "1">>, <<"4", "0", "4">>}

ResponseChoices ==
    {Response(c, FALSE, <<>>) : c \in Codes}
    \cup {Response(c, TRUE, sch) : c \in Codes, sch \in {RefTo("Widget"), InlineString}}

\* responses in the mapping's order, no code twice
ResponseSeqs ==
    {s \in SeqsUpTo(ResponseChoices, MaxResponses) :
        \A i, j \in 1..Len(s) : i # j => s[i].name # s[j].name}

ExampleResponses ==
    <<Response(<<"2", "0", "0">>, TRUE, RefTo("Widget")),
      Response(<<"4", "0", "4">>, TRUE, InlineString),
      Response(DEFAULT, TRUE, RefTo("Gadget"))>>

GetFoo == <<"g", "e", "t", "F", "o", "o">>
FooIdPath == <<"/", "f", "o", "o", "/", "{", "i", "d", "}">>

\* one path, one verb: the operation's parameters or its responses vary
OperationSpecifications ==
    { [base_path |-> <<>>, security |-> FALSE,
       paths |-> <<[template |-> FooIdPath,
                    verbs |-> <<[verb |-> GET, security |-> FALSE,
                                 operationId |-> oid,
                                 parameters |-> io[1], responses |-> io[2]]>>]>>] :
        oid \in {None, GetFoo},
        io \in (ParamSeqs \X {ExampleResponses}) \cup ({ExampleParams} \X ResponseSeqs) }

RunTemplates ==
    { <<"/">>, <<"/", "{", "b", "}">>, <<"/", "a", "/", "{", "b", "}">>,
      <<"/", "a", "_", "b">> }

GetParams ==
    <<Detail("id", "path", TRUE, <<>>), Detail("h", "header", TRUE, <<>>),
      Detail("q", "query", FALSE, <<>>)>>
PostParams ==
    <<Detail("b", "body", TRUE, RefTo("Widget")), Detail("f", "formData", FALSE, <<>>)>>

GetOps ==
    {[verb |-> GET, security |-> sec, operationId |-> None,
      parameters |-> GetParams, responses |-> ExampleResponses] : sec \in BOOLEAN}
PostOps ==
    {[verb |-> POST, security |-> sec, operationId |-> None,
      parameters |-> PostParams, responses |-> <<>>] : sec \in BOOLEAN}

\* the verbs of a path: get, or get and post
VerbSeqs == {<<g>> : g \in GetOps} \cup {<<g, p>> : g \in GetOps, p \in PostOps}

\* up to MaxPaths paths, no template twice
RunPaths ==
    { [i \in 1..Len(ts) |-> [template |-> ts[i], verbs |-> vs[i]]] :
        ts \in {t \in SeqsUpTo(RunTemplates, MaxPaths) :
                  t # <<>> /\ \A i, j \in 1..Len(t) : i # j => t[i] # t[j]},
        vs \in [1..MaxPaths -> VerbSeqs] }

RunSpecifications ==
    { [base_path |-> bp, security |-> sec, paths |-> ps] :
        bp \in {<<>>, <<"/", "a">>}, sec \in BOOLEAN, ps \in RunPaths }

InitCompiler ==
    /\ pc = "start"
    /\ in_path = <<>> /\ in_verb = <<>> /\ out_class = None /\ out_operation = None
    /\ ResolverIdle
    /\ classes = <<>>
    /\ stored = <<>>
    /\ reports = <<>>
    /\ entries = <<>>
    /\ files = Untouched
    /\ error = NoError

Init ==
    /\ InitCompiler
    /\ specification \in RunSpecifications

InitOperation ==
    /\ InitCompiler
    /\ specification \in OperationSpecifications

\* Generator.load_specification: the parser has read the document; the
\* class definitions are made
LoadSpecification ==
    /\ pc = "start"
    /\ LET st == make_class_definitions(specification)
       IN /\ classes' = st.classes
          /\ stored' = st.stored
          /\ reports' = st.reports
    /\ pc' = "loaded"
    /\ UNCHANGED <<namesVars, resolverVars, specification, entries, files, error>>

\* the slip of catching the exception around one step only: the run goes
\* on as if the step had been done
resume_after_exception(step) == step

\* "except Exception as e" encloses the whole body of generate: control
\* leaves the try block for the handler, whatever the step
after_exception(step) == "failed"

\* the handler: click.secho(str(e), fg="red")
Report(step, at) ==
    /\ error' = [step |-> step, at |-> at]
    /\ pc' = after_exception(step)

\* the places of load_specification that raise: the format cannot be
\* inferred, the file cannot be opened, the parser rejects the content
LoadFailures == {"format", "open", "parse"}

\* load_specification raises
LoadSpecificationFails ==
    /\ pc = "start"
    /\ \E at \in LoadFailures : Report("load", at)
    /\ UNCHANGED <<namesVars, resolverVars, specification, classes, stored, reports,
                   entries, files>>

\* the position of generate from which an artifact is produced
Before(a) ==
    LET i == CHOOSE n \in 1..Len(Artifacts) : Artifacts[n] = a
    IN IF i = 1 THEN "loaded" ELSE Artifacts[i - 1]

\* with open(...) as f: data = generator.generate_x(); f.write(data)
WriteFile(a) ==
    /\ pc = Before(a)
    /\ files' = [files EXCEPT ![a] = "written"]
    /\ pc' = a

\* the places of one artifact's block that raise, and what each leaves of
\* the file: open(..., "w") raising leaves it alone, generate_x() raising
\* leaves the file open() has truncated, f.write raising a part of the data
FileAfter == [open |-> "untouched", render |-> "truncated", write |-> "partial"]

\* an artifact's block raises
ArtifactFails ==
    /\ \E a \in ArtifactNames, at \in DOMAIN FileAfter :
          /\ pc = Before(a)
          /\ files' = [files EXCEPT ![a] = FileAfter[at]]
          /\ Report(a, at)
    /\ UNCHANGED <<namesVars, resolverVars, specification, classes, stored, reports,
                   entries>>

\* generate: the URLs file
GenerateUrls ==
    /\ WriteFile("urls")
    /\ entries' = generate_urls(specification)
    /\ UNCHANGED <<namesVars, resolverVars, specification, classes, stored, reports,
                   error>>

\* generate: the views file, rendered from self._classes
GenerateViews ==
    /\ WriteFile("views")
    /\ UNCHANGED <<namesVars, resolverVars, specification, classes, stored, reports,
                   entries, error>>

RECURSIVE generate_schemas(_, _, _, _)
\* Generator.generate_schemas: every definition copied, resolved, dumped
generate_schemas(defs, h, i, acc) ==
    IF i > NumDefs THEN acc
    ELSE LET name == DefOrder[i]
             c == deepcopy(h, defs[name])
             h2 == resolve_schema_references(defs, c.h, c.id)
         IN generate_schemas(defs, h2, i + 1,
                             Append(acc, [k |-> name, v |-> TreeOf(h2, c.id)]))

\* generate: the schemas file, from the document's definitions
GenerateSchemas ==
    /\ WriteFile("schemas")
    /\ LET t == LoadTable(PlainTable, 1, <<>>, <<>>)
           defs == [n \in DefNames |-> t.ids[IndexOfName(n)]]
       IN schemas' = generate_schemas(defs, t.h, 1, <<>>)
    /\ UNCHANGED <<namesVars, heap, definitions, loaded, detail_schema, schema,
                   resolved, inline_result, specification, classes, stored, reports,
                   entries, error>>

\* generate: the utils file, rendered from nothing
GenerateUtils ==
    /\ WriteFile("utils")
    /\ UNCHANGED <<namesVars, resolverVars, specification, classes, stored, reports,
                   entries, error>>

\* generate: the stubs file, rendered from self._classes
GenerateStubs ==
    /\ WriteFile("stubs")
    /\ UNCHANGED <<namesVars, resolverVars, specification, classes, stored, reports,
                   entries, error>>

Next ==
    \/ LoadSpecification
    \/ LoadSpecificationFails
    \/ GenerateUrls
    \/ GenerateViews
    \/ GenerateSchemas
    \/ GenerateUtils
    \/ GenerateStubs
    \/ ArtifactFails

Spec == Init /\ [][Next]_vars

SpecOperation == InitOperation /\ [][Next]_vars

---------------------------------------------------------------------------
(* Claims about the descriptors, checked under SpecOperation and Spec *)

RECURSIVE OpsOfPaths(_, _)
\* the operations of the document in processing order, each with its path
OpsOfPaths(bp, paths) ==
    IF paths = <<>> THEN <<>>
    ELSE [j \in 1..Len(Head(paths).verbs) |->
             [path |-> bp \o Head(paths).template,
              template |-> Head(paths).template,
              io |-> Head(paths).verbs[j]]]
         \o OpsOfPaths(bp, Tail(paths))

AllOps == OpsOfPaths(specification.base_path, specification.paths)

Loaded == pc \in {"loaded", "urls"}

IsRequiredArg(d) == d.in \in {"path", "query"} /\ d.required
IsOptionalArg(d) == d.in \in {"path", "query"} /\ ~d.required
IsFormField(d) == d.in = "formData"

\* C5: the required-argument list holds exactly the path and query
\* parameters marked required, the optional-argument list exactly those not
\* marked required, each in declaration order; formData parameters are
\* only in the form-field list and a body parameter is in neither
\* argument list.  [id in path required, q in query not required] gives
\* required [id] and optional [q].
C5_ArgumentLists ==
    Loaded =>
        \A k \in 1..Len(stored) :
            LET params == AllOps[k].io.parameters
                payload == stored[k].payload
            IN /\ payload.required_args = SelectSeq(params, IsRequiredArg)
               /\ payload.optional_args = SelectSeq(params, IsOptionalArg)
               /\ payload.form_data = SelectSeq(params, IsFormField)
               /\ \A i \in 1..Len(params) :
                     params[i].in = "body" =>
                         /\ \A a \in 1..Len(payload.required_args) :
                               payload.required_args[a].name # params[i].name
                         /\ \A a \in 1..Len(payload.optional_args) :
                               payload.optional_args[a].name # params[i].name
               /\ (params = ExampleParams =>
                     /\ payload.required_args = <<Detail("id", "path", TRUE, <<>>)>>
                     /\ payload.optional_args = <<Detail("q", "query", FALSE, <<>>)>>)

C5_Witness ==
    /\ pc = "loaded"
    /\ Len(stored) = 1
    /\ AllOps[1].io.parameters = ExampleParams
    /\ stored[1].payload.required_args = <<Detail("id", "path", TRUE, <<>>)>>
    /\ stored[1].payload.optional_args = <<Detail("q", "query", FALSE, <<>>)>>

\* a response counts when its code is 2xx and it declares a schema
Qualifies(r) ==
    /\ r.name # DEFAULT
    /\ Len(r.name) = 3 /\ r.name[1] = "2"
    /\ r.has_schema

\* C6: the response schema is determined only by the responses with a code
\* in [200, 300) that declare a schema: "default" and codes outside the
\* range never change it; a qualifying reference to Widget gives the
\* symbolic lookup of Widget, not an inlined body; with no qualifying
\* response it stays the "unspecified" sentinel.
C6_ResponseSchema ==
    Loaded =>
        \A k \in 1..Len(stored) :
            LET q == SelectSeq(AllOps[k].io.responses, Qualifies)
                got == stored[k].payload.response_schema
            IN /\ q = <<>> => got = Lookup("__UNSPECIFIED__")
               /\ q # <<>> =>
                     LET sch == q[Len(q)].schema
                     IN IF sch[1].ref # "-"
                        THEN got = Lookup(sch[1].ref)
                        ELSE got.kind = "inline" /\ got = PayloadSchema(sch)

C6_Witness ==
    /\ pc = "loaded"
    /\ AllOps[1].io.responses = ExampleResponses
    /\ stored[1].payload.response_schema = Lookup("Widget")

\* C7: the security flag of every (path, verb) is true when the document
\* declares a top-level security requirement, and otherwise true exactly
\* when that same path and verb declares its own.
C7_SecureFlag ==
    Loaded =>
        \A k \in 1..Len(stored) :
            stored[k].payload.secure =
                (specification.security \/ AllOps[k].io.security)

Supported(d) == d.in \in {"path", "query", "body", "formData"}
Unsupported(d) == ~Supported(d)

RECURSIVE ReportsFor(_, _)
\* one report per unsupported parameter, in processing order
ReportsFor(ops, k) ==
    IF k > Len(ops) THEN <<>>
    ELSE LET bad == SelectSeq(ops[k].io.parameters, Unsupported)
         IN [i \in 1..Len(bad) |->
                [location |-> bad[i].in,
                 operation |-> stored[k].payload.operation,
                 name |-> bad[i].name]]
            \o ReportsFor(ops, k + 1)

InList(d, list) == \E i \in 1..Len(list) : list[i] = d

\* C8: a parameter whose location is none of path, query, body, formData is
\* reported (location, operation, name), is put in none of the lists and
\* does not set the body, and the compilation goes on: every other
\* parameter is classified and every operation's descriptor is produced.
C8_UnsupportedLocation ==
    Loaded =>
        /\ Len(stored) = Len(AllOps)
        /\ reports = ReportsFor(AllOps, 1)
        /\ \A k \in 1..Len(stored) :
              LET params == AllOps[k].io.parameters
                  payload == stored[k].payload
              IN /\ stored[k].path = AllOps[k].path
                 /\ stored[k].verb = AllOps[k].io.verb
                 /\ \A i \in 1..Len(params) :
                       LET d == params[i]
                       IN /\ Unsupported(d) =>
                               /\ ~InList(d, payload.required_args)
                               /\ ~InList(d, payload.optional_args)
                               /\ ~InList(d, payload.form_data)
                               /\ ~(payload.body.present /\ payload.body.name = d.name)
                          /\ d.in \in {"path", "query"} =>
                               InList(d, payload.required_args \o payload.optional_args)
                          /\ d.in = "formData" => InList(d, payload.form_data)
                          /\ d.in = "body" =>
                               payload.body.present /\ payload.body.name = d.name

C8_Witness ==
    /\ pc = "loaded"
    /\ Len(stored) = 4
    /\ Len(reports) = 2
    /\ reports[1].location = "header"
    /\ stored[4].payload.body.present

\* C10: every path's URL entry names the class under which the path's
\* descriptors were stored, so every class name of the URL-entry mapping is
\* a key of the class mapping.
C10_UrlClassNames ==
    pc = "urls" =>
        /\ \A i \in 1..Len(entries) : HasKey(classes, entries[i].v)
        /\ \A k \in 1..Len(stored) :
              path_to_class_name(UrlsRelativeUrl(specification, stored[k].path))
                  = stored[k].class_name

---------------------------------------------------------------------------
(* Claims about colliding class names, checked under Spec *)

\* the class name _make_class_definitions gives a parser path (lines 212-213)
ClassNameOf(path) == path_to_class_name(RelativeUrl(specification, path))

\* the positions in self.parser.paths of the paths canonicalized to a name
PathsNamed(class_name) ==
    {i \in 1..Len(ParserPaths(specification)) :
        ClassNameOf(ParserPaths(specification)[i].path) = class_name}

\* the path processed last among those canonicalized to a name
LastNamed(class_name) ==
    CHOOSE i \in PathsNamed(class_name) : \A j \in PathsNamed(class_name) : j <= i

\* the descriptor line 318 assigned for a path and a verb
StoredFor(path, verb) ==
    stored[CHOOSE n \in 1..Len(stored) :
              stored[n].path = path /\ stored[n].verb = verb].payload

\* the verb -> descriptor pairs of one path, in the order of its verbs
PairsOf(p) ==
    [j \in 1..Len(p.verbs) |->
        [k |-> p.verbs[j].verb, v |-> StoredFor(p.path, p.verbs[j].verb)]]

\* C11: making the class definitions completes whatever names collide:
\* every operation of every path is built, and each name of the class
\* mapping holds exactly the verb -> descriptor pairs of the path processed
\* last among the paths canonicalized to that name; nothing of an earlier
\* path remains, not even a verb only the earlier path declares.
C11_LastPathOverwrites ==
    Loaded =>
        /\ Len(stored) = Len(AllOps)
        /\ \A i \in 1..Len(ParserPaths(specification)) :
              HasKey(classes, ClassNameOf(ParserPaths(specification)[i].path))
        /\ \A c \in 1..Len(classes) :
              /\ PathsNamed(classes[c].k) # {}
              /\ classes[c].v =
                    PairsOf(ParserPaths(specification)[LastNamed(classes[c].k)])

\* two distinct templates collide, the earlier declares post, the later
\* only get, and the class definitions have been made
C11_Witness ==
    /\ pc = "loaded"
    /\ Len(specification.paths) = 2
    /\ specification.paths[1].template # specification.paths[2].template
    /\ ClassNameOf(ParserPaths(specification)[1].path)
          = ClassNameOf(ParserPaths(specification)[2].path)
    /\ Len(specification.paths[1].verbs) = 2
    /\ Len(specification.paths[2].verbs) = 1
    /\ Len(classes) = 1
    /\ ~HasKey(classes[1].v, POST)

---------------------------------------------------------------------------
(* Claims about a whole run of generate, checked under Spec *)

\* the artifacts in the order the claim fixes
ClaimedOrder == <<"urls", "views", "schemas", "utils", "stubs">>

PlaceOf(a) == CHOOSE n \in 1..Len(ClaimedOrder) : ClaimedOrder[n] = a

\* every file before place n is written and every file after it untouched
StoppedAt(n) ==
    \A m \in 1..Len(ClaimedOrder) :
        /\ m < n => files[ClaimedOrder[m]] = "written"
        /\ m > n => files[ClaimedOrder[m]] = "untouched"

\* what holds of every state of a run
RunState ==
    /\ pc = "start" => files = Untouched
    /\ \A n \in 1..Len(ClaimedOrder) :
          files[ClaimedOrder[n]] # "untouched" =>
              \A m \in 1..(n - 1) : files[ClaimedOrder[m]] = "written"
    /\ error # NoError <=> pc = "failed"
    /\ error # NoError =>
          IF error.step = "load" THEN files = Untouched
          ELSE /\ error.step \in ArtifactNames
               /\ StoppedAt(PlaceOf(error.step))
               /\ files[error.step] # "written"

\* what holds of every step of a run
RunStep ==
    /\ error = NoError
    /\ files' # files => pc \in {"loaded"} \cup ArtifactNames
    /\ \A a \in ArtifactNames :
          /\ files[a] = "written" => files'[a] = "written"
          /\ files'[a] # files[a] =>
                /\ files[a] = "untouched"
                /\ \A b \in ArtifactNames \ {a} : files'[b] = files[b]

\* C12: a run writes its files one at a time in the order urls, views,
\* schemas, utils, stubs, and none before the specification has loaded;
\* when loading or an artifact's production raises, the run ends there
\* with the cause reported: every file after that artifact is untouched,
\* every file before it is and stays written, and no step is taken after
\* the report (nothing is retried, nothing is rolled back).
C12_RunOrderAndFailure == []RunState /\ [][RunStep]_vars

\* rendering the views raised after the urls file was written
C12_Witness ==
    /\ pc = "failed"
    /\ error = [step |-> "views", at |-> "render"]
    /\ files = [Untouched EXCEPT !["urls"] = "written", !["views"] = "truncated"]
    /\ entries # <<>>

===========================================================================
